---- MODULE Spec2Model ----
(***************************************************************************)
(* Model of the combinatorial allocation solver of scheduling.py: the      *)
(* Allocation cursors, the recursive percolate traversal with its          *)
(* exhaustion flag and memo set, Schedule.create_schedule (first-come      *)
(* pass, fill pass, completeness classification, reset) and the result     *)
(* store with its duplicate and version counters.                          *)
(*                                                                         *)
(* Time is counted in ticks of five minutes from the first tick of the     *)
(* week; a slot <<b, e>> covers the ticks b .. e-1.  A subject's name is   *)
(* its position in the subject list (file names are unique), and 0 is the  *)
(* empty cell "" of a table.                                               *)
(***************************************************************************)
EXTENDS Integers, Sequences, FiniteSets

\* ---------------------------------------------------------------- bounds
\* number of ticks of the modelled week
NumTicks == 4
\* the small input family: at most MaxSubjects subjects, MaxTotalSlots slots
\* altogether
MaxSubjects == 2
MaxTotalSlots == 4
\* the wide input family: WideSubjects exactly-one subjects with WideSlots-1
\* or WideSlots (or no) unit slots each
WideSubjects == 3
WideSlots == 4

\* subjects, allocated_times: the Subject objects and their transient sets
\* allocations:               the Allocation cursors
\* permutations, saved_schedules, duplicates, version: the module's globals
\* stack:      the frames of the percolate calls in progress, outermost first
\* status:     "ready", "running", "done", or "IndexError" when the thread died
\* evaluated:  the candidates passed to Schedule(...) so far, in order
\* last_call:  how the most recent percolate call went on
VARIABLES subjects, allocated_times, allocations, permutations,
          saved_schedules, duplicates, version, stack, status, evaluated,
          last_call

vars == <<subjects, allocated_times, allocations, permutations,
          saved_schedules, duplicates, version, stack, status, evaluated,
          last_call>>

\* ------------------------------------------------------------- helpers
Ticks == 0 .. NumTicks - 1

Empty == 0

Range(s) == {s[k] : k \in DOMAIN s}

RECURSIVE SumLen(_)
SumLen(ss) == IF ss = <<>> THEN 0 ELSE Len(Head(ss)) + SumLen(Tail(ss))

RECURSIVE ProdLen(_)
ProdLen(ss) == IF ss = <<>> THEN 1 ELSE Len(Head(ss)) * ProdLen(Tail(ss))

\* ------------------------------------------------------------ Schedule
empty_schedule == [t \in Ticks |-> Empty]

\* the value None of a table that create_schedule abandoned
NoTable == [t \in {} |-> Empty]

is_free_first_tick(schedule, selected_time) == schedule[selected_time[1]] = Empty

is_free(schedule, selected_time) ==
    \A t \in selected_time[1] .. selected_time[2] - 1 : schedule[t] = Empty

fill(schedule, subject, selected_time) ==
    [t \in DOMAIN schedule |->
        IF selected_time[1] <= t /\ t < selected_time[2]
        THEN subject.name ELSE schedule[t]]

\* ------------------------------------------------------------- Subject
mark_allocated(allocated, i, selected_time) ==
    [allocated EXCEPT ![i] = @ \cup {selected_time}]

is_partially_complete_always(subject, allocated) == TRUE

is_partially_complete(subject, allocated) == Cardinality(allocated) >= 1

is_complete_any(subject, allocated) == Cardinality(allocated) >= 1

is_complete(subject, allocated) ==
    IF subject.type = "VO"
    THEN allocated = Range(subject.times)
    ELSE Cardinality(allocated) >= 1

reset_leaking(allocated, i) == allocated

reset(allocated, i) == [allocated EXCEPT ![i] = {}]

\* ---------------------------------------------------------- Allocation
\* itertools.product([True, False], repeat=n), in its order
RECURSIVE product(_)
product(n) ==
    IF n = 0 THEN << <<>> >>
    ELSE LET rest == product(n - 1)
         IN  [k \in 1 .. Len(rest) |-> <<TRUE>> \o rest[k]] \o
             [k \in 1 .. Len(rest) |-> <<FALSE>> \o rest[k]]

any(booltuple) == \E k \in DOMAIN booltuple : booltuple[k]

sum(booltuple) == Cardinality({k \in DOMAIN booltuple : booltuple[k]})

Keep_any(subject, booltuple) == any(booltuple)

Keep_one(subject, booltuple) == sum(booltuple) = 1

Keep(subject, booltuple) ==
    IF subject.type = "VO" THEN any(booltuple) ELSE sum(booltuple) = 1

Allocation(subject) ==
    LET tmp == product(Len(subject.times))
        keep(booltuple) == Keep(subject, booltuple)
    IN  [index |-> 0, has_reached_end |-> FALSE, array |-> SelectSeq(tmp, keep)]

\* the 0-based index of the code reads position index + 1 of the sequence
InRange(a) == a.index + 1 \in DOMAIN a.array

get_array(a) == a.array[a.index + 1]

advance_past_end(a) == [a EXCEPT !.index = @ + 1]

advance_flag_only(a) == [a EXCEPT !.has_reached_end = TRUE]

advance(a) ==
    IF a.index < Len(a.array) - 1
    THEN [a EXCEPT !.index = @ + 1]
    ELSE [a EXCEPT !.has_reached_end = TRUE]

reverse(a) == IF a.index > 0 THEN [a EXCEPT !.index = @ - 1] ELSE a

reset_end_status(a) == [a EXCEPT !.has_reached_end = FALSE]

\* ----------------------------------------------------- create_schedule
\* F(x), with x evaluated once before F is applied to it
Strictly(F(_), x) == CHOOSE r \in {F(v) : v \in {x}} : TRUE

RECURSIVE first_pass_overwriting(_, _, _, _, _)
first_pass_overwriting(subs, vectors, i, j, st) ==
    IF i > Len(subs) THEN st
    ELSE IF j > Len(subs[i].times)
         THEN first_pass_overwriting(subs, vectors, i + 1, 1, st)
    ELSE LET selected_time == subs[i].times[j]
         IN  IF vectors[i][j]
             THEN first_pass_overwriting(subs, vectors, i, j + 1,
                     [table |-> fill(st.table, subs[i], selected_time),
                      allocated |-> mark_allocated(st.allocated, i, selected_time)])
             ELSE first_pass_overwriting(subs, vectors, i, j + 1, st)

\* first loop: the selected slots, subject by subject, slot by slot
RECURSIVE first_pass(_, _, _, _, _)
first_pass(subs, vectors, i, j, st) ==
    IF i > Len(subs) THEN st
    ELSE IF j > Len(subs[i].times) THEN first_pass(subs, vectors, i + 1, 1, st)
    ELSE LET selected_time == subs[i].times[j]
         IN  IF vectors[i][j] /\ is_free(st.table, selected_time)
             THEN Strictly(LAMBDA v : first_pass(subs, vectors, i, j + 1, v),
                     [table |-> fill(st.table, subs[i], selected_time),
                      allocated |-> mark_allocated(st.allocated, i, selected_time)])
             ELSE first_pass(subs, vectors, i, j + 1, st)

fill_pass_skipped(subs, i, j, st) == st

\* second loop: every VO subject tries its slots that are not allocated yet
RECURSIVE fill_pass(_, _, _, _)
fill_pass(subs, i, j, st) ==
    IF i > Len(subs) THEN st
    ELSE IF subs[i].type # "VO" \/ j > Len(subs[i].times)
         THEN fill_pass(subs, i + 1, 1, st)
    ELSE LET selected_time == subs[i].times[j]
         IN  IF selected_time \notin st.allocated[i] /\ is_free(st.table, selected_time)
             THEN Strictly(LAMBDA v : fill_pass(subs, i, j + 1, v),
                     [table |-> fill(st.table, subs[i], selected_time),
                      allocated |-> mark_allocated(st.allocated, i, selected_time)])
             ELSE fill_pass(subs, i, j + 1, st)

\* third loop: classify every subject, then reset it
RECURSIVE classify(_, _, _)
classify(subs, i, c) ==
    IF i > Len(subs) THEN c
    ELSE LET failure == ~is_partially_complete(subs[i], c.allocated[i])
             incomplete == ~failure /\ ~is_complete(subs[i], c.allocated[i])
         IN  Strictly(LAMBDA v : classify(subs, i + 1, v),
                 [is_incomplete |-> c.is_incomplete \/ incomplete,
                  total_failure |-> c.total_failure \/ failure,
                  allocated |-> reset(c.allocated, i)])

\* one loop doing, subject by subject, the selected slots (phase 1) and then
\* the remaining slots of a VO subject (phase 2)
RECURSIVE interleaved(_, _, _, _, _, _)
interleaved(subs, vectors, i, j, phase, st) ==
    IF i > Len(subs) THEN st
    ELSE IF j > Len(subs[i].times)
         THEN IF phase = 1 THEN interleaved(subs, vectors, i, 1, 2, st)
              ELSE interleaved(subs, vectors, i + 1, 1, 1, st)
    ELSE LET selected_time == subs[i].times[j]
             wanted == IF phase = 1 THEN vectors[i][j]
                       ELSE subs[i].type = "VO" /\ selected_time \notin st.allocated[i]
         IN  IF wanted /\ is_free(st.table, selected_time)
             THEN interleaved(subs, vectors, i, j + 1, phase,
                     [table |-> fill(st.table, subs[i], selected_time),
                      allocated |-> mark_allocated(st.allocated, i, selected_time)])
             ELSE interleaved(subs, vectors, i, j + 1, phase, st)

create_schedule_interleaved(subs, vectors, allocated) ==
    LET p2 == interleaved(subs, vectors, 1, 1, 1,
                  [table |-> empty_schedule, allocated |-> allocated])
        c  == classify(subs, 1, [is_incomplete |-> FALSE, total_failure |-> FALSE,
                                 allocated |-> p2.allocated])
    IN  [table |-> IF ~c.total_failure THEN p2.table ELSE NoTable,
         is_incomplete |-> c.is_incomplete,
         allocated |-> c.allocated,
         placed |-> p2.allocated]

\* the table (NoTable when abandoned), the flag, the subjects' allocated_times
\* when the call returns, and (placed) the allocated_times the passes built
create_schedule(subs, vectors, allocated) ==
    LET p1 == first_pass(subs, vectors, 1, 1,
                  [table |-> empty_schedule, allocated |-> allocated])
        p2 == fill_pass(subs, 1, 1, p1)
        c(after) == classify(subs, 1, [is_incomplete |-> FALSE, total_failure |-> FALSE,
                                       allocated |-> after.allocated])
        result(after) ==
            [table |-> IF ~c(after).total_failure THEN after.table ELSE NoTable,
             is_incomplete |-> c(after).is_incomplete,
             allocated |-> c(after).allocated,
             placed |-> after.allocated]
    IN  Strictly(result, p2)

\* ------------------------------------------------------------ percolate
\* the index of the first allocation whose has_reached_end is set, or 0
first_ended(allocs) ==
    IF \E i \in DOMAIN allocs : allocs[i].has_reached_end
    THEN CHOOSE i \in DOMAIN allocs :
             /\ allocs[i].has_reached_end
             /\ \A k \in 1 .. i - 1 : ~allocs[k].has_reached_end
    ELSE 0

perm_check_of(allocs) == [i \in DOMAIN allocs |-> get_array(allocs[i])]

in_permutations_never(perm_check, perms) == FALSE

in_permutations(perm_check, perms) == perm_check \in perms

eq_never(schedule, other) == FALSE

\* Schedule.__eq__
eq(schedule, other) == schedule.table = other.table

is_duplicate(schedule, saved) == \E k \in DOMAIN saved : eq(schedule, saved[k])

is_failed_never(schedule) == FALSE

\* "not schedule.table": None, or a table with no tick
is_failed(schedule) == DOMAIN schedule.table = {}

append_in_front(saved, schedule) == <<schedule>> \o saved

\* saved_schedules.append(schedule)
append(saved, schedule) == Append(saved, schedule)

\* the parts of the file name of a schedule, written when the counter is v
create_filename(schedule, v) ==
    [prefix |-> "schedule", version |-> v,
     completeness |-> IF schedule.is_incomplete THEN "_INCOMPLETE_" ELSE ""]

should_save_unless_failed(duplicate, failed) == ~failed

should_save(duplicate, failed) == ~duplicate /\ ~failed

\* the part of a percolate call after its two early returns: the candidate of
\* the cursors allocs is recorded, materialized, compared and possibly stored,
\* and the call enters its loop
Evaluate(allocs, frames) ==
    \E made \in {create_schedule(subjects, perm_check_of(allocs), allocated_times)} :
    LET perm_check == perm_check_of(allocs)
        schedule   == [table |-> made.table, is_incomplete |-> made.is_incomplete]
        duplicate  == is_duplicate(schedule, saved_schedules)
        failed     == is_failed(schedule)
    IN  /\ permutations' = permutations \cup {perm_check}
        /\ allocated_times' = made.allocated
        /\ duplicates' = IF duplicate THEN duplicates + 1 ELSE duplicates
        /\ IF should_save(duplicate, failed)
           THEN /\ version' = version + 1
                /\ saved_schedules' = append(saved_schedules, schedule)
           ELSE UNCHANGED <<version, saved_schedules>>
        /\ evaluated' = Append(evaluated,
               [perm |-> perm_check, schedule |-> schedule, placed |-> made.placed,
                saved |-> should_save(duplicate, failed), failed |-> failed])
        /\ stack' = Append(frames, [i |-> 1, perm_check |-> perm_check])
        /\ last_call' = "evaluated"

\* the thread calls percolate; a subject without slots has an empty array and
\* reading the current vector raises IndexError
StartError ==
    /\ status = "ready"
    /\ \E i \in DOMAIN allocations : ~InRange(allocations[i])
    /\ status' = "IndexError"
    /\ last_call' = "raised"
    /\ UNCHANGED <<subjects, allocated_times, allocations, permutations,
                   saved_schedules, duplicates, version, stack, evaluated>>

StartEvaluate ==
    /\ status = "ready"
    /\ \A i \in DOMAIN allocations : InRange(allocations[i])
    /\ status' = "running"
    /\ Evaluate(allocations, stack)
    /\ UNCHANGED <<subjects, allocations>>

Top == stack[Len(stack)]

InLoop == status = "running" /\ stack # <<>> /\ Top.i <= Len(allocations)

NextIteration(frames) == [frames EXCEPT ![Len(frames)].i = @ + 1]

Advanced == [allocations EXCEPT ![Top.i] = advance(@)]

\* loop body whose recursive call finds an exhausted cursor: the call clears
\* the first flag and returns, the cursor is reversed
StepEnded ==
    /\ InLoop
    /\ first_ended(Advanced) # 0
    /\ LET returned == [Advanced EXCEPT ![first_ended(Advanced)] = reset_end_status(@)]
       IN  allocations' = [returned EXCEPT ![Top.i] = reverse(@)]
    /\ stack' = NextIteration(stack)
    /\ last_call' = "ended"
    /\ UNCHANGED <<subjects, allocated_times, permutations, saved_schedules,
                   duplicates, version, status, evaluated>>

\* loop body whose recursive call finds its combination in the memo set
StepSeen ==
    /\ InLoop
    /\ first_ended(Advanced) = 0
    /\ in_permutations(perm_check_of(Advanced), permutations)
    /\ allocations' = [Advanced EXCEPT ![Top.i] = reverse(@)]
    /\ stack' = NextIteration(stack)
    /\ last_call' = "seen"
    /\ UNCHANGED <<subjects, allocated_times, permutations, saved_schedules,
                   duplicates, version, status, evaluated>>

\* loop body whose recursive call evaluates a new combination and enters its
\* own loop
StepEvaluate ==
    /\ InLoop
    /\ first_ended(Advanced) = 0
    /\ ~in_permutations(perm_check_of(Advanced), permutations)
    /\ allocations' = Advanced
    /\ Evaluate(Advanced, stack)
    /\ UNCHANGED <<subjects, status>>

\* the loop of the innermost call is over: it returns, and its caller reverses
\* the cursor it had advanced; the outermost call ends the run
Return ==
    /\ status = "running" /\ stack # <<>> /\ Top.i > Len(allocations)
    /\ LET frames == SubSeq(stack, 1, Len(stack) - 1)
       IN  IF frames = <<>>
           THEN /\ stack' = frames
                /\ status' = "done"
                /\ UNCHANGED allocations
           ELSE /\ allocations' =
                       [allocations EXCEPT ![frames[Len(frames)].i] = reverse(@)]
                /\ stack' = NextIteration(frames)
                /\ UNCHANGED status
    /\ UNCHANGED <<subjects, allocated_times, permutations, saved_schedules,
                   duplicates, version, evaluated, last_call>>

Next == StartError \/ StartEvaluate \/ StepEnded \/ StepSeen \/ StepEvaluate \/ Return

\* ------------------------------------------------------- subject lists
Types == {"UE", "VO"}

\* the slots of the small family: two adjacent ticks and the slot over both
SmallSlots == {<<0, 1>>, <<1, 2>>, <<0, 2>>}

\* lists of k different slots, in any order of declaration
SlotLists(S, k) ==
    {l \in [1 .. k -> S] : \A a, b \in 1 .. k : a # b => l[a] # l[b]}

\* the slot lists of every length the budget allows
SmallSlotLists == UNION {SlotLists(SmallSlots, k) : k \in 0 .. MaxTotalSlots}

SubjectList(ty, ts) ==
    [i \in DOMAIN ts |-> [name |-> i, type |-> ty[i], times |-> ts[i]]]

\* the first m unit slots of the week
UnitSlots(m) == [j \in 1 .. m |-> <<j - 1, j>>]

WideConfigs ==
    {SubjectList([i \in 1 .. WideSubjects |-> "UE"],
                 [i \in 1 .. WideSubjects |-> UnitSlots(m[i])]) :
     m \in [1 .. WideSubjects -> {0, WideSlots - 1, WideSlots}]}

\* the state when the solver thread is created
InitWith(subs) ==
    /\ subjects = subs
    /\ allocated_times = [i \in DOMAIN subs |-> {}]
    /\ allocations = [i \in DOMAIN subs |-> Allocation(subs[i])]
    /\ permutations = {}
    /\ saved_schedules = <<>>
    /\ duplicates = 0
    /\ version = 0
    /\ stack = <<>>
    /\ status = "ready"
    /\ evaluated = <<>>
    /\ last_call = "none"

\* the small family: lists of at most MaxSubjects subjects with at most
\* MaxTotalSlots slots altogether
Init ==
    \E n \in 1 .. MaxSubjects :
        \E ty \in [1 .. n -> Types], ts \in [1 .. n -> SmallSlotLists] :
            /\ SumLen(ts) <= MaxTotalSlots
            /\ InitWith(SubjectList(ty, ts))

InitWide == \E subs \in WideConfigs : InitWith(subs)

Spec == Init /\ [][Next]_vars

SpecWide == InitWide /\ [][Next]_vars

\* one cursor on its own, built over a subject with slots, and any sequence
\* of calls of its three methods
InitCursor ==
    \E ty \in Types, ts \in SmallSlotLists :
        /\ ts # <<>>
        /\ InitWith(SubjectList(<<ty>>, <<ts>>))

CallOnCursor(method, after) ==
    /\ allocations' = [allocations EXCEPT ![1] = after]
    /\ last_call' = method
    /\ UNCHANGED <<subjects, allocated_times, permutations, saved_schedules,
                   duplicates, version, stack, status, evaluated>>

CallAdvance == CallOnCursor("advance", advance(allocations[1]))

CallReverse == CallOnCursor("reverse", reverse(allocations[1]))

CallResetEndStatus ==
    CallOnCursor("reset_end_status", reset_end_status(allocations[1]))

NextCursor == CallAdvance \/ CallReverse \/ CallResetEndStatus

SpecCursor == InitCursor /\ [][NextCursor]_vars

\* the solver thread is started and joined: a percolate call that can take a
\* step takes it
FairSpec == Init /\ [][Next]_vars /\ WF_vars(Next)

\* ---------------------------------------------------------- properties
Overlap(s, t) == s[1] < t[2] /\ t[1] < s[2]

Subjects == DOMAIN subjects

LastEvaluated == evaluated[Len(evaluated)]

\* the Cartesian product of the subjects' vector lists
RECURSIVE Combinations(_)
Combinations(arrays) ==
    IF arrays = <<>> THEN {<<>>}
    ELSE {<<v>> \o rest : v \in Range(Head(arrays)), rest \in Combinations(Tail(arrays))}

Arrays == [i \in Subjects |-> allocations[i].array]

\* a FillAll subject of the candidate e did not get all its slots
SomeLectureIncomplete(e) ==
    \E i \in Subjects :
        subjects[i].type = "VO" /\ e.placed[i] # Range(subjects[i].times)

SomeSubjectEmpty(e) == \E i \in Subjects : e.placed[i] = {}

\* a step that evaluates one more candidate
Evaluates == Len(evaluated') = Len(evaluated) + 1

\* C1: when the top-level percolate call has returned for subjects that all
\* have at least one slot, the combinations evaluated are exactly the
\* Cartesian product of the vector lists, each once.
C1_EveryCombinationEvaluated ==
    (status = "done" /\ \A i \in Subjects : Len(subjects[i].times) >= 1)
        => /\ {evaluated[k].perm : k \in DOMAIN evaluated} = Combinations(Arrays)
           /\ Len(evaluated) = ProdLen(Arrays)

\* C2: no combination is evaluated twice, and a percolate call that finds its
\* combination in the memo set constructs no Schedule and leaves the memo set,
\* the counters and the store as they are.
C2_EvaluatedAtMostOnce ==
    /\ [](\A a, b \in DOMAIN evaluated :
              a # b => evaluated[a].perm # evaluated[b].perm)
    /\ [][(InLoop /\ first_ended(Advanced) = 0
                  /\ perm_check_of(Advanced) \in permutations)
            => UNCHANGED <<evaluated, permutations, saved_schedules,
                           duplicates, version>>]_vars

C2_Witness ==
    /\ last_call = "seen"
    /\ Len(evaluated) >= 2
    /\ perm_check_of(allocations) \in permutations

\* C3: in every stored schedule the slots placed for different subjects do not
\* overlap, and every tick of a placed slot holds the name of its subject.
C3_NoOverlapInStore ==
    /\ \A k \in DOMAIN saved_schedules :
          \E j \in DOMAIN evaluated :
              evaluated[j].saved /\ evaluated[j].schedule = saved_schedules[k]
    /\ \A j \in DOMAIN evaluated :
          evaluated[j].saved =>
              /\ \A a, b \in Subjects :
                    a # b => \A x \in evaluated[j].placed[a],
                                y \in evaluated[j].placed[b] : ~Overlap(x, y)
              /\ \A a \in Subjects :
                    \A x \in evaluated[j].placed[a] :
                        \A t \in x[1] .. x[2] - 1 :
                            evaluated[j].schedule.table[t] = subjects[a].name

\* a stored schedule in which a second subject lost a selected slot to the first
C3_Witness ==
    \E j \in DOMAIN evaluated :
        /\ evaluated[j].saved
        /\ evaluated[j].schedule \in Range(saved_schedules)
        /\ \E a, b \in Subjects :
              /\ a < b
              /\ evaluated[j].placed[a] # {} /\ evaluated[j].placed[b] # {}
              /\ \E k \in DOMAIN subjects[b].times :
                    /\ evaluated[j].perm[b][k]
                    /\ subjects[b].times[k] \notin evaluated[j].placed[b]
                    /\ \E x \in evaluated[j].placed[a] :
                          Overlap(x, subjects[b].times[k])

\* C4: no two schedules of saved_schedules have equal tables.
C4_NoEqualTablesInStore ==
    \A a, b \in DOMAIN saved_schedules :
        a # b => saved_schedules[a].table # saved_schedules[b].table

\* a duplicate was met while the store held two schedules
C4_Witness ==
    /\ Len(saved_schedules) >= 2
    /\ duplicates >= 1
    /\ last_call = "evaluated"
    /\ ~LastEvaluated.saved /\ ~LastEvaluated.failed

\* C5: a candidate that leaves some subject without any placed slot is not
\* stored and counts neither as accepted nor as duplicate.
C5_TotalFailureDiscarded ==
    [][(Evaluates /\ SomeSubjectEmpty(evaluated'[Len(evaluated')]))
         => UNCHANGED <<saved_schedules, version, duplicates>>]_vars

\* a candidate failed while the store was not empty
C5_Witness ==
    /\ last_call = "evaluated"
    /\ SomeSubjectEmpty(LastEvaluated)
    /\ \E i \in Subjects : LastEvaluated.placed[i] # {}
    /\ saved_schedules # <<>>

\* C6: an accepted schedule is flagged incomplete exactly when some FillAll
\* subject did not get all its declared slots.
C6_IncompleteIffLectureIncomplete ==
    \A j \in DOMAIN evaluated :
        evaluated[j].saved =>
            /\ evaluated[j].schedule \in Range(saved_schedules)
            /\ evaluated[j].schedule.is_incomplete <=> SomeLectureIncomplete(evaluated[j])

\* a stored schedule flagged incomplete in which one lecture has all its slots
\* and another has some but not all
C6_Witness ==
    \E j \in DOMAIN evaluated :
        /\ evaluated[j].saved /\ evaluated[j].schedule.is_incomplete
        /\ evaluated[j].schedule \in Range(saved_schedules)
        /\ \E a, b \in Subjects :
              /\ subjects[a].type = "VO" /\ subjects[b].type = "VO"
              /\ evaluated[j].placed[a] = Range(subjects[a].times)
              /\ evaluated[j].placed[b] # Range(subjects[b].times)

\* C7: in an accepted schedule every RequiredOne subject holds exactly one of
\* its declared slots, and the schedule is flagged incomplete only for a
\* FillAll subject.
C7_ExactlyOneSlot ==
    \A j \in DOMAIN evaluated :
        evaluated[j].saved =>
            /\ \A i \in Subjects :
                  subjects[i].type = "UE" =>
                      /\ Cardinality(evaluated[j].placed[i]) = 1
                      /\ evaluated[j].placed[i] \subseteq Range(subjects[i].times)
                      /\ \A x \in evaluated[j].placed[i] :
                            {t \in Ticks : evaluated[j].schedule.table[t] = subjects[i].name}
                                = x[1] .. x[2] - 1
            /\ evaluated[j].schedule.is_incomplete
                  => \E i \in Subjects :
                         /\ subjects[i].type = "VO"
                         /\ evaluated[j].placed[i] # Range(subjects[i].times)

\* a stored schedule with a RequiredOne subject that declared two slots
C7_Witness ==
    \E j \in DOMAIN evaluated :
        /\ evaluated[j].saved
        /\ \E i \in Subjects :
              subjects[i].type = "UE" /\ Len(subjects[i].times) >= 2
        /\ \E i \in Subjects : subjects[i].type = "VO"
        /\ evaluated[j].schedule.is_incomplete

\* C8: a candidate that did not fail and whose table equals a stored table
\* adds one to duplicates and leaves saved_schedules and version alone.
C8_DuplicateCounted ==
    [][(/\ Evaluates
        /\ ~SomeSubjectEmpty(evaluated'[Len(evaluated')])
        /\ \E k \in DOMAIN saved_schedules :
              saved_schedules[k].table = evaluated'[Len(evaluated')].schedule.table)
         => /\ duplicates' = duplicates + 1
            /\ UNCHANGED <<saved_schedules, version>>]_vars

C8_Witness ==
    /\ last_call = "evaluated"
    /\ ~SomeSubjectEmpty(LastEvaluated)
    /\ ~LastEvaluated.saved
    /\ duplicates >= 1
    /\ \E k \in DOMAIN saved_schedules :
          saved_schedules[k].table = LastEvaluated.schedule.table

\* C9: with a subject that has no slot the solver raises no error.
C9_EmptySubjectRaisesNothing ==
    (\E i \in Subjects : subjects[i].times = <<>>) => status # "IndexError"

\* C10: materializing an evaluated combination again, in any later state,
\* gives the table and the flag it gave before, every subject's
\* allocated_times being empty whenever a materialization starts.
C10_MaterializationRepeatable ==
    /\ \A i \in Subjects : allocated_times[i] = {}
    /\ \A j \in DOMAIN evaluated :
          LET again == create_schedule(subjects, evaluated[j].perm, allocated_times)
          IN  /\ again.table = evaluated[j].schedule.table
              /\ again.is_incomplete = evaluated[j].schedule.is_incomplete

\* an accepted, a duplicate and a failed candidate have been evaluated, the
\* first of them with a lecture
C10_Witness ==
    /\ \E j \in DOMAIN evaluated : evaluated[j].failed
    /\ \E j \in DOMAIN evaluated : ~evaluated[j].saved /\ ~evaluated[j].failed
    /\ evaluated[1].saved
    /\ \E i \in Subjects : subjects[i].type = "VO" /\ evaluated[1].placed[i] # {}
    /\ Len(evaluated) >= 4

\* the run is over for a single subject of type ty with two slots that do not
\* overlap
DoneWithOneSubject(ty) ==
    /\ status = "done"
    /\ Len(subjects) = 1
    /\ subjects[1].type = ty
    /\ Len(subjects[1].times) = 2
    /\ ~Overlap(subjects[1].times[1], subjects[1].times[2])

\* C11: a single FillAll subject with two slots that do not overlap ends with
\* one stored schedule, complete and holding both slots, and with the two
\* other candidates counted as duplicates.
C11_OneLectureOneSchedule ==
    DoneWithOneSubject("VO") =>
        /\ Len(saved_schedules) = 1 /\ version = 1
        /\ ~saved_schedules[1].is_incomplete
        /\ \A k \in 1 .. 2 :
              \A t \in subjects[1].times[k][1] .. subjects[1].times[k][2] - 1 :
                  saved_schedules[1].table[t] = subjects[1].name
        /\ Len(evaluated) = 3
        /\ duplicates = 2
        /\ \A j \in DOMAIN evaluated : ~evaluated[j].schedule.is_incomplete

C11_Witness ==
    /\ DoneWithOneSubject("VO")
    /\ duplicates = 2
    /\ Len(saved_schedules) = 1

\* two UE subjects, each with at least one slot, and every slot of the one
\* overlaps every slot of the other
TwoClashingExercises ==
    /\ Len(subjects) = 2
    /\ \A i \in 1 .. 2 : subjects[i].type = "UE" /\ subjects[i].times # <<>>
    /\ \A s \in Range(subjects[1].times), t \in Range(subjects[2].times) :
          Overlap(s, t)

\* C12: when two RequiredOne subjects have only slots that overlap each
\* other, every evaluated candidate is a total failure: nothing is stored and
\* nothing is counted as a duplicate, and the run still evaluates candidates.
C12_ClashingExercisesStoreNothing ==
    TwoClashingExercises =>
        /\ saved_schedules = <<>> /\ version = 0
        /\ duplicates = 0
        /\ \A j \in DOMAIN evaluated :
              evaluated[j].failed /\ ~evaluated[j].saved
        /\ status = "done" => evaluated # <<>>

C12_Witness ==
    /\ TwoClashingExercises
    /\ status = "done"
    /\ Len(evaluated) > 1
    /\ saved_schedules = <<>>

\* C13: a single RequiredOne subject with two slots that do not overlap ends
\* with two stored schedules, one per slot, both complete, and no duplicate.
C13_OneExerciseTwoSchedules ==
    DoneWithOneSubject("UE") =>
        /\ Len(saved_schedules) = 2 /\ version = 2
        /\ \A k \in 1 .. 2 : ~saved_schedules[k].is_incomplete
        /\ \A k \in 1 .. 2 : \E slot \in Range(subjects[1].times) :
              \A t \in Ticks :
                  saved_schedules[k].table[t] = subjects[1].name
                      <=> t \in slot[1] .. slot[2] - 1
        /\ saved_schedules[1].table # saved_schedules[2].table
        /\ duplicates = 0

C13_Witness ==
    /\ DoneWithOneSubject("UE")
    /\ Len(saved_schedules) = 2
    /\ duplicates = 0

\* the state of create_schedule for the candidate e between its first and its
\* second loop
AfterFirstPass(e) ==
    first_pass(subjects, e.perm, 1, 1,
               [table |-> empty_schedule, allocated |-> [i \in Subjects |-> {}]])

\* slot j of subject i is visited by the first loop before slot l of subject k
VisitedBefore(i, j, k, l) == i < k \/ (i = k /\ j < l)

NoSelfOverlap(i) ==
    \A j, l \in DOMAIN subjects[i].times :
        j # l => ~Overlap(subjects[i].times[j], subjects[i].times[l])

AfterFillPass(e) == fill_pass(subjects, 1, 1, AfterFirstPass(e))

\* no slot of subject i overlaps a slot of another subject or another slot of i
Unchallenged(i) ==
    /\ NoSelfOverlap(i)
    /\ \A k \in Subjects \ {i} :
          \A s \in Range(subjects[i].times), t \in Range(subjects[k].times) :
              ~Overlap(s, t)

C16_FillAfterAllSelected ==
    evaluated # <<>> =>
        LET e  == LastEvaluated
            p1 == AfterFirstPass(e)
        IN  /\ \A i \in Subjects : \A j \in DOMAIN subjects[i].times :
                  ~e.perm[i][j] /\ subjects[i].times[j] \in e.placed[i]
                      => /\ subjects[i].type = "VO"
                         /\ is_free(p1.table, subjects[i].times[j])
            /\ \A i, k \in Subjects :
                  \A j \in DOMAIN subjects[i].times, l \in DOMAIN subjects[k].times :
                      /\ ~e.perm[i][j] /\ subjects[i].times[j] \in e.placed[i]
                      /\ e.perm[k][l]
                      /\ Overlap(subjects[i].times[j], subjects[k].times[l])
                      => subjects[k].times[l] \notin e.placed[k]
            /\ \A k \in Subjects : \A l \in DOMAIN subjects[k].times :
                  /\ e.perm[k][l]
                  /\ is_free(empty_schedule, subjects[k].times[l])
                  /\ \A i \in Subjects : \A j \in DOMAIN subjects[i].times :
                        e.perm[i][j] /\ <<i, j>> # <<k, l>> =>
                            ~Overlap(subjects[i].times[j], subjects[k].times[l])
                  => subjects[k].times[l] \in e.placed[k]

\* a lecture did not select a slot that overlaps a slot a later subject
\* selected; the later subject got its slot and the lecture did not get its own
C16_Witness ==
    /\ evaluated # <<>>
    /\ LET e == LastEvaluated
       IN  \E i, k \in Subjects :
               /\ i < k
               /\ subjects[i].type = "VO"
               /\ \E j \in DOMAIN subjects[i].times, l \in DOMAIN subjects[k].times :
                     /\ ~e.perm[i][j] /\ e.perm[k][l]
                     /\ Overlap(subjects[i].times[j], subjects[k].times[l])
                     /\ subjects[k].times[l] \in e.placed[k]
                     /\ subjects[i].times[j] \notin e.placed[i]

EverySubjectHasSlots == \A i \in Subjects : subjects[i].times # <<>>

Cursor == allocations[1]

LastIndex == Len(Cursor.array) - 1

\* C18: a cursor over a non-empty vector list keeps its index in 0 .. len-1
\* under any sequence of advance, reverse and reset_end_status; advance at
\* the last index keeps the index and sets has_reached_end, advance elsewhere
\* adds one to the index and leaves the flag alone, reverse at index 0 changes
\* nothing, and the flag is cleared by reset_end_status only.
C18_CursorStaysInRange ==
    /\ [](Cursor.array # <<>> /\ Cursor.index \in 0 .. LastIndex)
    /\ [][/\ last_call' = "advance" =>
                IF Cursor.index = LastIndex
                THEN Cursor'.index = Cursor.index /\ Cursor'.has_reached_end
                ELSE /\ Cursor'.index = Cursor.index + 1
                     /\ Cursor'.has_reached_end = Cursor.has_reached_end
          /\ last_call' = "reverse" =>
                /\ Cursor'.index = IF Cursor.index = 0 THEN 0 ELSE Cursor.index - 1
                /\ Cursor'.has_reached_end = Cursor.has_reached_end
          /\ last_call' = "reset_end_status" =>
                Cursor'.index = Cursor.index /\ ~Cursor'.has_reached_end
          /\ Cursor.has_reached_end /\ ~Cursor'.has_reached_end =>
                last_call' = "reset_end_status"
          /\ Cursor'.array = Cursor.array]_vars

\* advance has just been called at the last index of a list of three or more
\* vectors
C18_Witness ==
    /\ last_call = "advance"
    /\ LastIndex >= 2
    /\ Cursor.index = LastIndex
    /\ Cursor.has_reached_end

\* C19: backtracking restores the cursors: while a percolate call is in its
\* loop, before and after each iteration (advance, recursive call, reverse),
\* the cursors stand at the combination that this call evaluated.
C19_BacktrackingRestoresCursors ==
    status = "running" /\ stack # <<>> =>
        perm_check_of(allocations) = Top.perm_check

\* C20: the store is append-only and numbered in discovery order: the
\* counter version equals the length of saved_schedules between evaluations,
\* a step adds at most one schedule, at the end, the k-th schedule added gets
\* a file name with number k, and what the store held stays as it was.
C20_StoreAppendOnly ==
    /\ [](version = Len(saved_schedules))
    /\ [][/\ Len(saved_schedules') \in {Len(saved_schedules), Len(saved_schedules) + 1}
          /\ SubSeq(saved_schedules', 1, Len(saved_schedules)) = saved_schedules
          /\ Len(saved_schedules') = Len(saved_schedules) + 1 =>
                /\ Evaluates
                /\ LastEvaluated'.saved
                /\ saved_schedules'[Len(saved_schedules')] = LastEvaluated'.schedule
                /\ create_filename(LastEvaluated'.schedule, version').version
                       = Len(saved_schedules) + 1]_vars

\* several schedules are stored, the last of them after a candidate was
\* rejected, and a candidate was rejected after it
C20_Witness ==
    /\ Len(saved_schedules) >= 2
    /\ version = Len(saved_schedules)
    /\ ~LastEvaluated.saved
    /\ \E j, k \in DOMAIN evaluated :
          /\ j < k
          /\ ~evaluated[j].saved
          /\ evaluated[k].saved
          /\ evaluated[k].schedule = saved_schedules[Len(saved_schedules)]

====
